---------------------------- MODULE Spec2Model ----------------------------
(***************************************************************************)
(* json_replace (src/json_replace.cpp): one left-to-right pass over a      *)
(* C-string holding a flat JSON-like document.  Every value whose key ends *)
(* with TARGET_SUFFIX is masked with REPLACE_CHAR.                         *)
(*                                                                         *)
(* Bytes are one-character strings.  A C-string is a sequence of bytes     *)
(* followed by NUL.  The source pointer is a 1-based index into mem, the   *)
(* memory that starts at the first byte of the input; the destination      *)
(* pointer is the end of dest, the bytes written so far.  The four scan    *)
(* routines are functions of (memory, source index, destination) and are   *)
(* operators; the driver loop is the state machine.                        *)
(***************************************************************************)
EXTENDS Integers, Sequences, FiniteSets

VARIABLES
  json,     \* the document the input text was built from (never changes)
  input,    \* the C-string passed to json_replace, without its terminator
  mem,      \* the bytes readable through src: input, NUL, then whatever
            \* lies behind the terminator once the scan has run over it
  src,      \* const char *src, as an index into mem
  dest,     \* the bytes written through char *dest so far
  temp,     \* char *temp (line 152), as a length of dest
  replace,  \* bool replace (line 154)
  pc,       \* position of the driver
  out       \* the std::string json_replace returns (when pc = "done")

vars == <<json, input, mem, src, dest, temp, replace, pc, out>>

-----------------------------------------------------------------------------
(* Bytes *)

QT == "\""
BS == "\\"
NUL == "NUL"
LB == "["
RB == "]"

TARGET_SUFFIX == <<"_", "X">>
REPLACE_CHAR == "*"
ESCAPED_TARGET_SUFFIX == TARGET_SUFFIX \o <<QT>>

-----------------------------------------------------------------------------
(* Bounds of the model *)

MaxPairs == 2    \* key/value pairs in a document
MaxElems == 2    \* string elements in an array value
MaxOver == 2     \* bytes behind the terminator an overrunning scan may read

-----------------------------------------------------------------------------
(* The documents json_replace is run on *)

KeyBodies ==
  { <<>>, <<"X">>, <<"_", "X">>, <<"k", "_", "X">>, <<"k", "_", "x">>,
    <<"_", "X", "a">> }

StrBodies ==
  { <<>>, <<"a">>, <<"a", RB>>, <<LB, ",">>, <<BS, QT, "a">>, <<BS, BS>> }

ElemBodies ==
  { <<>>, <<"a", RB>>, <<BS, QT>>, <<BS, BS>> }

SeqsUpTo(S, n) == UNION { [1..k -> S] : k \in 0..n }

Values ==
  { [kind |-> "str", elems |-> <<b>>] : b \in StrBodies }
    \cup { [kind |-> "arr", elems |-> e] : e \in SeqsUpTo(ElemBodies, MaxElems) }
    \cup { [kind |-> "num", elems |-> <<>>] }

Pairs == { [key |-> k, val |-> v] : k \in KeyBodies, v \in Values }

\* The pairs that may stand before the last pair of a document.
LeadPairs ==
  { [key |-> <<"X">>, val |-> [kind |-> "str", elems |-> << <<"a">> >>]],
    [key |-> <<"_", "X">>, val |-> [kind |-> "str", elems |-> << <<"a">> >>]],
    [key |-> <<"X">>, val |-> [kind |-> "str", elems |-> << <<BS, BS>> >>]],
    [key |-> <<"X">>, val |-> [kind |-> "num", elems |-> <<>>]] }

PairSeqs ==
  { <<>> } \cup
  UNION { { Append(l, p) : l \in [1..k -> LeadPairs], p \in Pairs }
          : k \in 0..(MaxPairs - 1) }

Docs == { [wrap |-> w, pairs |-> ps] : w \in BOOLEAN, ps \in PairSeqs }

Quote(b) == <<QT>> \o b \o <<QT>>

RECURSIVE ElemsText(_)
ElemsText(es) ==
  IF es = <<>> THEN <<>>
  ELSE IF Len(es) = 1 THEN Quote(es[1])
  ELSE Quote(es[1]) \o <<",", " ">> \o ElemsText(Tail(es))

ValueText(v) ==
  CASE v.kind = "str" -> Quote(v.elems[1])
    [] v.kind = "arr" -> <<LB>> \o ElemsText(v.elems) \o <<RB>>
    [] v.kind = "num" -> <<"1">>

PairText(p) == Quote(p.key) \o <<" ", ":", " ">> \o ValueText(p.val)

RECURSIVE PairsText(_)
PairsText(ps) ==
  IF ps = <<>> THEN <<>>
  ELSE IF Len(ps) = 1 THEN PairText(ps[1])
  ELSE PairText(ps[1]) \o <<",", " ">> \o PairsText(Tail(ps))

DocText(j) ==
  IF j.wrap THEN <<"{">> \o PairsText(j.pairs) \o <<"}">>
  ELSE PairsText(j.pairs)

\* What may lie behind the terminator of the input.
HeapBytes == { QT, NUL, "a" }

-----------------------------------------------------------------------------
(* The scan routines.  Each returns the cursors it leaves; oob says that   *)
(* the routine read a byte behind the end of mem.                          *)

Ret(s, d) == [src |-> s, dest |-> d, oob |-> FALSE, thrown |-> FALSE]
Oob(s, d) == [src |-> s, dest |-> d, oob |-> TRUE, thrown |-> FALSE]
Thrown(s, d) == [src |-> s, dest |-> d, oob |-> FALSE, thrown |-> TRUE]

RECURSIVE read_json_filler(_, _, _)
read_json_filler(m, s, d) ==
  IF s > Len(m) THEN Oob(s, d)
  ELSE IF m[s] # NUL /\ m[s] # QT /\ m[s] # LB
       THEN read_json_filler(m, s + 1, Append(d, m[s]))
       ELSE Ret(s, d)

\* while (**p_src != '"' || escaped), copying the body (lines 83-91)
RECURSIVE StringBody(_, _, _, _)
StringBody(m, s, d, escaped) ==
  IF s > Len(m) THEN Oob(s, d)
  ELSE IF m[s] # QT \/ escaped
       THEN StringBody(m, s + 1, Append(d, m[s]), m[s] = BS)
       ELSE Ret(s + 1, Append(d, m[s]))

read_json_string(m, s, d) ==
  IF s > Len(m) THEN Oob(s, d)
  ELSE StringBody(m, s + 1, Append(d, m[s]), FALSE)

\* while (**p_src != '"' || escaped), dropping the body (lines 61-70)
RECURSIVE SkipBody(_, _, _, _)
SkipBody(m, s, d, escaped) ==
  IF s > Len(m) THEN Oob(s, d)
  ELSE IF m[s] # QT \/ escaped
       THEN SkipBody(m, s + 1, d, m[s] = BS)
       ELSE Ret(s + 1, d \o <<REPLACE_CHAR, m[s]>>)

\* Variant: the empty-string test of lines 55-59 is missing.
read_and_replace_always_masks(m, s, d) ==
  IF s > Len(m) THEN Oob(s, d)
  ELSE SkipBody(m, s + 1, Append(d, m[s]), FALSE)

\* Variant: the body scan stops at the first quote, escaped or not.
RECURSIVE SkipToQuote(_, _, _)
SkipToQuote(m, s, d) ==
  IF s > Len(m) THEN Oob(s, d)
  ELSE IF m[s] # QT THEN SkipToQuote(m, s + 1, d)
       ELSE Ret(s + 1, d \o <<REPLACE_CHAR, m[s]>>)

read_and_replace_no_escape(m, s, d) ==
  IF s + 1 > Len(m) THEN Oob(s, d)
  ELSE IF m[s + 1] = QT
       THEN Ret(s + 2, d \o <<m[s], m[s + 1]>>)
       ELSE SkipToQuote(m, s + 1, Append(d, m[s]))

read_and_replace_json_string(m, s, d) ==
  IF s + 1 > Len(m) THEN Oob(s, d)
  ELSE IF m[s + 1] = QT
       THEN Ret(s + 2, d \o <<m[s], m[s + 1]>>)
       ELSE SkipBody(m, s + 1, Append(d, m[s]), FALSE)

ReadString(m, s, d, r) ==
  IF r THEN read_and_replace_json_string(m, s, d)
  ELSE read_json_string(m, s, d)

\* Variant: the bytes between the elements are skipped, not copied.
RECURSIVE ArrayLoop_drops_separators(_, _, _, _)
ArrayLoop_drops_separators(m, s, d, r) ==
  IF s > Len(m) THEN Oob(s, d)
  ELSE IF m[s] = RB THEN Ret(s + 1, Append(d, m[s]))
  ELSE IF m[s] = QT
       THEN LET e == ReadString(m, s, d, r)
            IN IF e.oob THEN e ELSE ArrayLoop_drops_separators(m, e.src, e.dest, r)
       ELSE ArrayLoop_drops_separators(m, s + 1, d, r)

\* while (**p_src != ']') of the array branch (lines 117-130)
RECURSIVE ArrayLoop(_, _, _, _)
ArrayLoop(m, s, d, r) ==
  IF s > Len(m) THEN Oob(s, d)
  ELSE IF m[s] = RB THEN Ret(s + 1, Append(d, m[s]))
  ELSE IF m[s] = QT
       THEN LET e == ReadString(m, s, d, r)
            IN IF e.oob THEN e ELSE ArrayLoop(m, e.src, e.dest, r)
       ELSE ArrayLoop(m, s + 1, Append(d, m[s]), r)

\* Variant: the throw of line 133 is missing.
read_json_value_no_throw(m, s, d, r) ==
  IF s > Len(m) THEN Oob(s, d)
  ELSE IF m[s] = QT THEN ReadString(m, s, d, r)
  ELSE IF m[s] = LB THEN ArrayLoop(m, s + 1, Append(d, m[s]), r)
  ELSE Ret(s, d)

read_json_value(m, s, d, r) ==
  IF s > Len(m) THEN Oob(s, d)
  ELSE IF m[s] = QT THEN ReadString(m, s, d, r)
  ELSE IF m[s] = LB THEN ArrayLoop(m, s + 1, Append(d, m[s]), r)
  ELSE Thrown(s, d)

\* strlen (ESCAPED_TARGET_SUFFIX)
min_key_len == Len(ESCAPED_TARGET_SUFFIX)

\* Variant: the suffix is searched anywhere in the key (strstr), not at its end.
KeyIsTarget_anywhere(d, t) ==
  \E i \in (t + 1)..(Len(d) - 1) : SubSeq(d, i, i + 1) = TARGET_SUFFIX

\* dest - temp >= min_key_len && strncmp (dest - min_key_len, ...) == 0
KeyIsTarget(d, t) ==
  /\ Len(d) - t >= min_key_len
  /\ SubSeq(d, Len(d) - min_key_len + 1, Len(d)) = ESCAPED_TARGET_SUFFIX

\* std::string new_str (dest): the bytes before the first NUL
RECURSIVE CString(_)
CString(d) ==
  IF d = <<>> \/ Head(d) = NUL THEN <<>>
  ELSE <<Head(d)>> \o CString(Tail(d))

-----------------------------------------------------------------------------
(* The driver, json_replace_no_try_catch inside json_replace *)

Init ==
  /\ json \in Docs
  /\ input = DocText(json)
  /\ mem = input \o <<NUL>>
  /\ src = 1
  /\ dest = <<>>
  /\ temp = 0
  /\ replace = FALSE
  /\ pc = "loop"
  /\ out = <<>>

\* while (*src != 0)
LoopTest ==
  /\ pc = "loop"
  /\ src <= Len(mem)
  /\ mem[src] # NUL
  /\ pc' = "filler1"
  /\ UNCHANGED <<json, input, mem, src, dest, temp, replace, out>>

\* *dest = '\0'; std::string new_str (dest); return new_str
Finish ==
  /\ pc = "loop"
  /\ src <= Len(mem)
  /\ mem[src] = NUL
  /\ dest' = Append(dest, NUL)
  /\ out' = CString(dest')
  /\ pc' = "done"
  /\ UNCHANGED <<json, input, mem, src, temp, replace>>

Filler(from, to) ==
  /\ pc = from
  /\ LET r == read_json_filler(mem, src, dest)
     IN /\ ~r.oob
        /\ src' = r.src
        /\ dest' = r.dest
  /\ pc' = to
  /\ UNCHANGED <<json, input, mem, temp, replace, out>>

Filler1 == Filler("filler1", "key")

ReadKey ==
  /\ pc = "key"
  /\ LET r == read_json_string(mem, src, dest)
     IN /\ ~r.oob
        /\ temp' = Len(dest)
        /\ src' = r.src
        /\ dest' = r.dest
        /\ replace' = KeyIsTarget(r.dest, Len(dest))
  /\ pc' = "filler2"
  /\ UNCHANGED <<json, input, mem, out>>

Filler2 == Filler("filler2", "value")

ReadValue ==
  /\ pc = "value"
  /\ LET r == read_json_value(mem, src, dest, replace)
     IN /\ ~r.oob
        /\ ~r.thrown
        /\ src' = r.src
        /\ dest' = r.dest
  /\ pc' = "filler3"
  /\ UNCHANGED <<json, input, mem, temp, replace, out>>

\* throw std::invalid_argument, caught and rethrown by json_replace
ThrowUnsupported ==
  /\ pc = "value"
  /\ LET r == read_json_value(mem, src, dest, replace)
     IN ~r.oob /\ r.thrown
  /\ pc' = "thrown"
  /\ UNCHANGED <<json, input, mem, src, dest, temp, replace, out>>

Filler3 == Filler("filler3", "loop")

\* The routine the driver is about to run reads behind the end of mem.
ReadsBehind ==
  CASE pc = "loop" -> src > Len(mem)
    [] pc \in {"filler1", "filler2", "filler3"} ->
         read_json_filler(mem, src, dest).oob
    [] pc = "key" -> read_json_string(mem, src, dest).oob
    [] pc = "value" -> read_json_value(mem, src, dest, replace).oob
    [] OTHER -> FALSE

\* A read behind the terminator is undefined: it finds some byte there ...
OverrunRead ==
  /\ ReadsBehind
  /\ Len(mem) < Len(input) + 1 + MaxOver
  /\ \E b \in HeapBytes : mem' = Append(mem, b)
  /\ UNCHANGED <<json, input, src, dest, temp, replace, pc, out>>

\* ... or the process is killed.
OverrunFault ==
  /\ ReadsBehind
  /\ pc' = "segv"
  /\ UNCHANGED <<json, input, mem, src, dest, temp, replace, out>>

Next ==
  \/ LoopTest
  \/ Finish
  \/ Filler1
  \/ ReadKey
  \/ Filler2
  \/ ReadValue
  \/ ThrowUnsupported
  \/ Filler3
  \/ OverrunRead
  \/ OverrunFault

Spec == Init /\ [][Next]_vars

-----------------------------------------------------------------------------
(* Reference notions, read off the document the input was built from *)

Terminal == pc \in {"done", "thrown", "segv"}

NumPairs == Len(json.pairs)

\* Every value is a string or an array of strings.
Supported == \A i \in 1..NumPairs : json.pairs[i].val.kind # "num"

\* The key's text ends with the designated suffix.
IsTargetKey(k) ==
  Len(k) >= Len(TARGET_SUFFIX)
    /\ SubSeq(k, Len(k) - Len(TARGET_SUFFIX) + 1, Len(k)) = TARGET_SUFFIX

MaskedBody(b) == IF b = <<>> THEN <<>> ELSE <<REPLACE_CHAR>>

MaskedValue(v) ==
  [kind |-> v.kind, elems |-> [i \in 1..Len(v.elems) |-> MaskedBody(v.elems[i])]]

StarredValue(v) ==
  [kind |-> v.kind, elems |-> [i \in 1..Len(v.elems) |-> <<REPLACE_CHAR>>]]

ExpectedPair(p) ==
  IF IsTargetKey(p.key) THEN [key |-> p.key, val |-> MaskedValue(p.val)] ELSE p

\* The input with every non-empty string under a target key replaced by "*".
Expected ==
  DocText([wrap |-> json.wrap,
           pairs |-> [i \in 1..NumPairs |-> ExpectedPair(json.pairs[i])]])

\* Where pair i, its value, and the byte after its value stand in the input.
PairStart(i) ==
  (IF json.wrap THEN 1 ELSE 0) + Len(PairsText(SubSeq(json.pairs, 1, i - 1)))
    + (IF i > 1 THEN 2 ELSE 0) + 1
ValStart(i) == PairStart(i) + Len(Quote(json.pairs[i].key)) + 3
ValEnd(i) == ValStart(i) + Len(ValueText(json.pairs[i].val))

HasByte(t, b) == \E i \in 1..Len(t) : t[i] = b

LastBytes(t, n) == SubSeq(t, Len(t) - n + 1, Len(t))

\* The closing quote of the JSON string literal opening at m[s]: the first
\* quote behind s that an even number of backslashes precedes.
BackslashesBefore(m, s, j) ==
  Cardinality({ k \in 1..(j - s - 1) : \A t \in 1..k : m[j - t] = BS })
IsClosingQuote(m, s, j) ==
  /\ j > s
  /\ j <= Len(m)
  /\ m[j] = QT
  /\ BackslashesBefore(m, s, j) % 2 = 0
  /\ \A i \in (s + 1)..(j - 1) :
       /\ m[i] # NUL
       /\ m[i] = QT => BackslashesBefore(m, s, i) % 2 = 1
HasLiteralAt(m, s) ==
  s <= Len(m) /\ m[s] = QT /\ \E j \in 1..Len(m) : IsClosingQuote(m, s, j)
LiteralEnd(m, s) == CHOOSE j \in 1..Len(m) : IsClosingQuote(m, s, j)

\* The driver is about to call a string reader on the quote at mem[src].
AtStringCall ==
  pc \in {"key", "value"} /\ src <= Len(mem) /\ mem[src] = QT

-----------------------------------------------------------------------------
(* C1: for every input of one or more supported pairs in which no key ends *)
(* with _X, json_replace returns and its output equals the input.          *)
C1_NonTargetOutputEqualsInput ==
  (/\ Terminal
   /\ NumPairs >= 1
   /\ Supported
   /\ \A i \in 1..NumPairs : ~IsTargetKey(json.pairs[i].key))
    => (pc = "done" /\ out = input)

(* C2: for every input of supported pairs, the output is the input with    *)
(* every non-empty string under a target key replaced by "*", whatever the *)
(* values before the target pair hold.                                     *)
C2_OutputEqualsMaskedReference ==
  (/\ Terminal
   /\ Supported
   /\ \E i \in 2..NumPairs : IsTargetKey(json.pairs[i].key))
    => (pc = "done" /\ out = Expected)

(* C3 as stated: whenever some pair's value is a number, wherever it stands *)
(* and whatever follows it, json_replace fails with the UnsupportedValue    *)
(* error.                                                                   *)
C3_UnsupportedValueAlwaysThrows ==
  (/\ Terminal
   /\ NumPairs >= 1
   /\ \A i \in 1..NumPairs : json.pairs[i].val.kind = "num")
    => pc = "thrown"

(* C3 as amended: the filler scanner before the value copies every byte up  *)
(* to the next quote, open bracket or terminator; the error is raised       *)
(* exactly when the value reader is then entered on a byte that is neither  *)
(* a quote nor an open bracket, that byte is the terminator, and no text is *)
(* returned after the error.                                                *)
C3_ThrowsExactlyAtTerminator ==
  [][ /\ (pc = "filler2" /\ pc' = "value") =>
           /\ dest' = dest \o SubSeq(mem, src, src' - 1)
           /\ \A i \in src..(src' - 1) : mem[i] \notin {QT, LB, NUL}
           /\ mem[src'] \in {QT, LB, NUL}
      /\ (pc = "value" /\ pc' \in {"filler3", "thrown"}) =>
           /\ (pc' = "thrown") <=> (mem[src] \notin {QT, LB})
           /\ (pc' = "thrown") => (mem[src] = NUL /\ out' = <<>>)
      /\ pc # "thrown" ]_vars

C3_ThrowWitness ==
  /\ pc = "thrown"
  /\ NumPairs = 1
  /\ IsTargetKey(json.pairs[1].key)
  /\ json.pairs[1].val.kind = "num"
  /\ src = Len(input) + 1

ElementsDelimited(v) ==
  \A k \in 1..Len(v.elems) :
    v.elems[k] = <<>> \/ v.elems[k][Len(v.elems[k])] # BS

C6_WrittenWithinReadAndBuffer ==
  Supported =>
    /\ Len(dest) <= (IF pc = "done" THEN src ELSE src - 1)
    /\ Len(dest) <= Len(input) + 1
    /\ (pc = "done" => Len(out) <= Len(input))

(* C7: the value is masked exactly when the key span just read is at least *)
(* 3 bytes long and ends with _X" ; the key is copied verbatim; the        *)
(* decision is made from that key alone and kept until its value is read.  *)
C7_ReplaceDecidedByKeySpan ==
  [][ /\ (pc = "key" /\ pc' = "filler2") =>
           LET span == SubSeq(mem, src, src' - 1)
           IN /\ dest' = dest \o span
              /\ replace' <=>
                   (Len(span) >= 3 /\ LastBytes(span, 3) = <<"_", "X", QT>>)
              /\ \A i \in 1..NumPairs :
                   (src = PairStart(i) /\ src' = PairStart(i) + Len(Quote(json.pairs[i].key)))
                     => (replace' <=> IsTargetKey(json.pairs[i].key))
      /\ (pc = "filler2") => (replace' = replace)
      /\ (pc = "value" /\ pc' = "filler3") =>
           LET span == SubSeq(mem, src, src' - 1)
           IN /\ ~replace => dest' = dest \o span
              /\ (replace /\ mem[src] = QT /\ mem[src + 1] # QT) =>
                   dest' = dest \o <<QT, REPLACE_CHAR, QT>> ]_vars

C7_SecondKeyWitness ==
  /\ pc = "filler3"
  /\ NumPairs = 2
  /\ json.pairs[1].key = <<"_", "X">>
  /\ json.pairs[2].key = <<"_", "X", "a">>
  /\ json.pairs[2].val = [kind |-> "str", elems |-> << <<"a">> >>]
  /\ src = ValEnd(2)
  /\ ~replace
  /\ dest = Expected

(* C8: started at the opening quote of a well-formed string literal, whose *)
(* body may hold \" and \\ , read_json_string copies exactly the literal   *)
(* and leaves the cursor right behind its closing quote.                   *)
C8_VerbatimReaderCopiesLiteral ==
  (AtStringCall /\ (pc = "key" \/ ~replace) /\ HasLiteralAt(mem, src)) =>
    LET r == read_json_string(mem, src, dest)
        e == LiteralEnd(mem, src)
    IN /\ ~r.oob
       /\ r.src = e + 1
       /\ r.dest = dest \o SubSeq(mem, src, e)

(* C9: for every input of supported pairs, also one of no pair such as {} , *)
(* the source cursor never passes the terminator and the loop ends with the *)
(* cursor on the terminator.                                                *)
C9_ScanStaysWithinInput ==
  (Supported /\ ~HasByte(input, BS)) =>
    /\ src <= Len(input) + 1
    /\ Len(mem) = Len(input) + 1
    /\ pc # "segv"
    /\ (pc = "done" => src = Len(input) + 1)

(* C10: on a string with a non-empty body the masking reader writes the    *)
(* three bytes "*" , and it leaves the source cursor where the verbatim    *)
(* reader would, also inside an array.                                     *)
C10_MaskingAdvancesLikeVerbatim ==
  /\ AtStringCall =>
       LET a == read_and_replace_json_string(mem, src, dest)
           v == read_json_string(mem, src, dest)
       IN /\ a.oob = v.oob
          /\ ~a.oob =>
               /\ a.src = v.src
               /\ (mem[src + 1] # QT) => a.dest = dest \o <<QT, REPLACE_CHAR, QT>>
  /\ (pc = "value" /\ mem[src] = LB) =>
       LET a == read_json_value(mem, src, dest, TRUE)
           v == read_json_value(mem, src, dest, FALSE)
       IN a.oob = v.oob /\ (~a.oob => a.src = v.src)

C10_MaskedWitness ==
  /\ pc = "filler3"
  /\ replace
  /\ \E i \in 1..NumPairs :
       /\ IsTargetKey(json.pairs[i].key)
       /\ json.pairs[i].val = [kind |-> "str", elems |-> << <<BS, QT, "a">> >>]
       /\ src = ValEnd(i)
       /\ src = read_json_string(mem, ValStart(i), <<>>).src
       /\ LastBytes(dest, 3) = <<QT, REPLACE_CHAR, QT>>

=============================================================================
